---- MODULE Spec2Model ----
(***************************************************************************)
(* Family Feud: Real Estate Edition (script.js).  A host-driven page: the  *)
(* host clicks cards to reveal answers, advances through three rounds,     *)
(* then starts the Final Feud in which two players type answers that are   *)
(* scored against a survey table.  The model keeps the script's globals    *)
(* and the parts of the DOM the handlers read or write; texts are          *)
(* sequences of one-character strings so that trim() and toLowerCase()     *)
(* are computed, not assumed.  Displayed texts that are a function of the  *)
(* other state (question text, card texts, the intro line) are left out.   *)
(*                                                                         *)
(* script.js holds the script twice (lines 1-433, and again from line 434  *)
(* with other survey data); the model follows the first copy, the one the  *)
(* functions' globals (roundNumber, scores, finalQuestions) belong to.     *)
(* The page's markup is not part of the script: what Init takes from it    *)
(* (the start-final button and the Final Feud container start hidden) is   *)
(* what nextRound and prepareFinalFeud undo when they show them.           *)
(***************************************************************************)
EXTENDS Integers, Sequences, FiniteSets, TLC

(***************************************************************************)
(* Bounds of the model                                                     *)
(***************************************************************************)
\* the host clicks only the first MaxCard cards of a round's board
MaxCard == 1
\* nextRound is invoked at most MaxAdvances times in a run
MaxAdvances == 4
\* direct calls of revealAnswer are made for the first MaxCardCalls cards
MaxCardCalls == 2

(***************************************************************************)
(* Data (script.js lines 12-136)                                           *)
(***************************************************************************)
\* rounds[k].answers[j].points; the answer texts are only displayed
rounds ==
  << [answers |-> << [points |-> 30], [points |-> 25], [points |-> 20],
                     [points |-> 15], [points |-> 10], [points |-> 5] >>],
     [answers |-> << [points |-> 30], [points |-> 25], [points |-> 20],
                     [points |-> 15], [points |-> 10], [points |-> 5] >>],
     [answers |-> << [points |-> 30], [points |-> 25], [points |-> 20],
                     [points |-> 15], [points |-> 10], [points |-> 5] >>],
     [answers |-> << [points |-> 30], [points |-> 25], [points |-> 20],
                     [points |-> 15], [points |-> 10], [points |-> 5] >>],
     [answers |-> << [points |-> 30], [points |-> 25], [points |-> 20],
                     [points |-> 15], [points |-> 10], [points |-> 5] >> ] >>

multipliers_flat == <<1, 1, 1>>

multipliers == <<1, 2, 3>>

Teams == {1, 2}

\* "U+2011" stands for the non-breaking hyphen of 'In-unit laundry'
finalQuestions ==
  << [answers |-> <<
        [text |-> <<"K", "i", "t", "c", "h", "e", "n">>, points |-> 40],
        [text |-> <<"L", "i", "v", "i", "n", "g", " ", "r", "o", "o", "m">>, points |-> 25],
        [text |-> <<"M", "a", "s", "t", "e", "r", " ", "b", "e", "d", "r", "o", "o", "m">>, points |-> 20],
        [text |-> <<"B", "a", "t", "h", "r", "o", "o", "m">>, points |-> 10],
        [text |-> <<"D", "i", "n", "i", "n", "g", " ", "r", "o", "o", "m">>, points |-> 5] >>],
    [answers |-> <<
        [text |-> <<"W", "a", "t", "e", "r", " ", "p", "r", "e", "s", "s", "u", "r", "e">>, points |-> 30],
        [text |-> <<"C", "l", "o", "s", "e", "t", " ", "s", "p", "a", "c", "e">>, points |-> 25],
        [text |-> <<"N", "a", "t", "u", "r", "a", "l", " ", "l", "i", "g", "h", "t">>, points |-> 20],
        [text |-> <<"F", "l", "o", "o", "r", "i", "n", "g">>, points |-> 15],
        [text |-> <<"S", "m", "e", "l", "l", "s">>, points |-> 10] >>],
    [answers |-> <<
        [text |-> <<"Z", "i", "l", "l", "o", "w">>, points |-> 35],
        [text |-> <<"R", "e", "a", "l", "t", "o", "r", ".", "c", "o", "m">>, points |-> 25],
        [text |-> <<"R", "e", "d", "f", "i", "n">>, points |-> 20],
        [text |-> <<"F", "a", "c", "e", "b", "o", "o", "k", " ", "M", "a", "r", "k", "e", "t", "p", "l", "a", "c", "e">>, points |-> 15],
        [text |-> <<"C", "r", "a", "i", "g", "s", "l", "i", "s", "t">>, points |-> 5] >>],
    [answers |-> <<
        [text |-> <<"U", "p", "d", "a", "t", "e", "d", " ", "k", "i", "t", "c", "h", "e", "n">>, points |-> 30],
        [text |-> <<"P", "a", "r", "k", "i", "n", "g">>, points |-> 25],
        [text |-> <<"I", "n", "U+2011", "u", "n", "i", "t", " ", "l", "a", "u", "n", "d", "r", "y">>, points |-> 20],
        [text |-> <<"A", "i", "r", " ", "c", "o", "n", "d", "i", "t", "i", "o", "n", "i", "n", "g">>, points |-> 15],
        [text |-> <<"O", "u", "t", "d", "o", "o", "r", " ", "s", "p", "a", "c", "e">>, points |-> 10] >>],
    [answers |-> <<
        [text |-> <<"H", "o", "m", "e", " ", "i", "n", "s", "p", "e", "c", "t", "o", "r">>, points |-> 35],
        [text |-> <<"M", "o", "r", "t", "g", "a", "g", "e", " ", "l", "e", "n", "d", "e", "r">>, points |-> 25],
        [text |-> <<"S", "t", "a", "g", "i", "n", "g", " ", "c", "o", "m", "p", "a", "n", "y">>, points |-> 20],
        [text |-> <<"C", "o", "n", "t", "r", "a", "c", "t", "o", "r">>, points |-> 15],
        [text |-> <<"P", "h", "o", "t", "o", "g", "r", "a", "p", "h", "e", "r">>, points |-> 5] >>] >>

\* JavaScript null (finalTeam before the Final Feud)
null == 0

\* textContent of an element the script has not written yet
noText == -1

WinMessage == "Congratulations! You have reached 200 points and won the grand prize!"

LoseMessage == "Good effort! You needed 200 points to win."

(***************************************************************************)
(* String functions                                                        *)
(***************************************************************************)
\* the letters toLowerCase changes, each with its lower-case form
LowerCaseOf ==
  "A" :> "a" @@ "B" :> "b" @@ "C" :> "c" @@ "D" :> "d" @@ "E" :> "e" @@ "F" :> "f" @@ "G" :> "g" @@
  "H" :> "h" @@ "I" :> "i" @@ "J" :> "j" @@ "K" :> "k" @@ "L" :> "l" @@ "M" :> "m" @@ "N" :> "n" @@
  "O" :> "o" @@ "P" :> "p" @@ "Q" :> "q" @@ "R" :> "r" @@ "S" :> "s" @@ "T" :> "t" @@ "U" :> "u" @@
  "V" :> "v" @@ "W" :> "w" @@ "X" :> "x" @@ "Y" :> "y" @@ "Z" :> "z"

\* white space and line terminators stripped by String.prototype.trim
WhiteSpace == {" ", "\t", "\n", "\r", "\f"}

toLowerCaseChar(c) == IF c \in DOMAIN LowerCaseOf THEN LowerCaseOf[c] ELSE c

toLowerCase(s) == [k \in 1..Len(s) |-> toLowerCaseChar(s[k])]

\* the text without its leading and trailing white space
trim(s) ==
  LET kept == {k \in 1..Len(s) : s[k] \notin WhiteSpace}
      first == CHOOSE k \in kept : \A j \in kept : k <= j
      last == CHOOSE k \in kept : \A j \in kept : j <= k
  IN  IF kept = {} THEN <<>> ELSE SubSeq(s, first, last)

normalizeInput_noTrim(value) == toLowerCase(IF value = <<>> THEN <<>> ELSE value)

\* (input.value || '').trim().toLowerCase()
normalizeInput(value) == toLowerCase(trim(IF value = <<>> THEN <<>> ELSE value))

(***************************************************************************)
(* State                                                                   *)
(***************************************************************************)
VARIABLES
  currentRoundIndex,      \* 0-based index into rounds
  roundNumber,            \* 1, 2, 3
  scores,                 \* scores[1], scores[2]
  revealed,               \* card idx -> the card of the board has class 'revealed'
  nextRoundBtnDisplay,    \* nextRoundBtn.style.display
  nextRoundBtnText,       \* nextRoundBtn.textContent
  startFinalBtnDisplay,   \* startFinalBtn.style.display
  mainDisplay,            \* style.display of the <main> element
  finalFeudHidden,        \* finalFeudContainer has class 'hidden'
  finalTeam,              \* null, 1 or 2
  player1Answers,
  player2Answers,
  player1SectionDisplay,
  player2SectionDisplay,
  finalResultsDisplay,
  finalBoard,             \* rows of the final board: the points shown in the two cells
  finalTotalScore,        \* finalTotalScoreElem.textContent
  finalMessage,           \* finalMessageElem.textContent
  event,                  \* the last handler invoked, with its inputs
  advances,               \* number of invocations of nextRound so far
  revealLog,              \* the cards revealed so far: <<round number, catalogue index, idx>>
  alertShown              \* the duplicate alert of submitPlayer2 has been shown

roundVars == <<currentRoundIndex, roundNumber, scores, revealed,
               nextRoundBtnDisplay, nextRoundBtnText, startFinalBtnDisplay>>

finalVars == <<mainDisplay, finalFeudHidden, finalTeam, player1Answers, player2Answers,
               player1SectionDisplay, player2SectionDisplay, finalResultsDisplay,
               finalBoard, finalTotalScore, finalMessage>>

vars == <<roundVars, finalVars, event, advances, revealLog, alertShown>>

\* an event record: the handler, and the inputs the handler reads
Event(op, idx, team, raw) == [op |-> op, idx |-> idx, team |-> team, raw |-> raw]

(***************************************************************************)
(* renderRound: a fresh, unrevealed card for every answer of rounds[index] *)
(***************************************************************************)
renderRound(index) == [idx \in 0..(Len(rounds[index + 1].answers) - 1) |-> FALSE]

(***************************************************************************)
(* The page as its markup declares it, before any handler has run: the     *)
(* inline styles, classes and texts of the elements the script looks up by *)
(* id.  The start-final button and the Final Feud container start hidden   *)
(* (nextRound and prepareFinalFeud are what shows them).                   *)
(***************************************************************************)
pageMarkup ==
  [ nextRoundBtnDisplay   |-> "",
    nextRoundBtnText      |-> "Next Round",
    startFinalBtnDisplay  |-> "none",
    mainDisplay           |-> "",
    finalFeudHidden       |-> TRUE,
    player1SectionDisplay |-> "none",
    player2SectionDisplay |-> "none",
    finalResultsDisplay   |-> "none",
    finalBoard            |-> <<>>,
    finalTotalScore       |-> noText,
    finalMessage          |-> "" ]

(***************************************************************************)
(* The page after the load event: globals as declared, the first round     *)
(* rendered, every element as the markup has it.                           *)
(***************************************************************************)
Init ==
  /\ currentRoundIndex = 0
  /\ roundNumber = 1
  /\ scores = [t \in Teams |-> 0]
  /\ revealed = renderRound(0)
  /\ nextRoundBtnDisplay = pageMarkup.nextRoundBtnDisplay
  /\ nextRoundBtnText = pageMarkup.nextRoundBtnText
  /\ startFinalBtnDisplay = pageMarkup.startFinalBtnDisplay
  /\ mainDisplay = pageMarkup.mainDisplay
  /\ finalFeudHidden = pageMarkup.finalFeudHidden
  /\ finalTeam = null
  /\ player1Answers = <<>>
  /\ player2Answers = <<>>
  /\ player1SectionDisplay = pageMarkup.player1SectionDisplay
  /\ player2SectionDisplay = pageMarkup.player2SectionDisplay
  /\ finalResultsDisplay = pageMarkup.finalResultsDisplay
  /\ finalBoard = pageMarkup.finalBoard
  /\ finalTotalScore = pageMarkup.finalTotalScore
  /\ finalMessage = pageMarkup.finalMessage
  /\ event = Event("load", -1, 0, <<>>)
  /\ advances = 0
  /\ revealLog = {}
  /\ alertShown = FALSE

(***************************************************************************)
(* revealAnswer(idx, card), updateScore(team, points)                      *)
(***************************************************************************)
alreadyRevealed_never(idx) == FALSE

\* card.classList.contains('revealed')
alreadyRevealed(idx) == revealed[idx]

\* multipliers[roundNumber - 1] || 1
multiplierFor(rn) ==
  IF rn \in 1..Len(multipliers) /\ multipliers[rn] # 0 THEN multipliers[rn] ELSE 1

updateScore_overwrite(team, points) == scores' = [scores EXCEPT ![team] = points]

updateScore_bothTeams(team, points) == scores' = [t \in Teams |-> scores[t] + points]

updateScore(team, points) == scores' = [scores EXCEPT ![team] = @ + points]

revealAnswer(idx, activeTeam) ==
  LET round == rounds[currentRoundIndex + 1]
      answer == round.answers[idx + 1]
      multiplier == multiplierFor(roundNumber)
      totalPoints == answer.points * multiplier
  IN  /\ event' = Event("revealAnswer", idx, activeTeam, <<>>)
      /\ IF alreadyRevealed(idx)
           THEN UNCHANGED <<revealed, scores, revealLog>>
           ELSE /\ revealed' = [revealed EXCEPT ![idx] = TRUE]
                /\ updateScore(activeTeam, totalPoints)
                /\ revealLog' = revealLog \cup {<<roundNumber, currentRoundIndex, idx>>}
      /\ UNCHANGED <<currentRoundIndex, roundNumber, nextRoundBtnDisplay,
                     nextRoundBtnText, startFinalBtnDisplay, finalVars, advances,
                     alertShown>>

(***************************************************************************)
(* nextRound                                                               *)
(***************************************************************************)
inRounds1Or2_le(rn) == rn <= 3

inRounds1Or2_always(rn) == TRUE

\* roundNumber < 3
inRounds1Or2(rn) == rn < 3

advanceToNextRound_resetScores ==
  /\ roundNumber' = roundNumber + 1
  /\ currentRoundIndex' = (currentRoundIndex + 1) % Len(rounds)
  /\ revealed' = renderRound(currentRoundIndex')
  /\ nextRoundBtnText' = IF roundNumber' = 3 THEN "Finish Round 3" ELSE nextRoundBtnText
  /\ scores' = [t \in Teams |-> 0]
  /\ UNCHANGED <<nextRoundBtnDisplay, startFinalBtnDisplay>>

advanceToNextRound_showsFinal ==
  /\ roundNumber' = roundNumber + 1
  /\ currentRoundIndex' = (currentRoundIndex + 1) % Len(rounds)
  /\ revealed' = renderRound(currentRoundIndex')
  /\ nextRoundBtnText' = IF roundNumber' = 3 THEN "Finish Round 3" ELSE nextRoundBtnText
  /\ startFinalBtnDisplay' = IF roundNumber' = 3 THEN "inline-block" ELSE startFinalBtnDisplay
  /\ UNCHANGED <<scores, nextRoundBtnDisplay>>

advanceToNextRound_keepsBoard ==
  /\ roundNumber' = roundNumber + 1
  /\ currentRoundIndex' = (currentRoundIndex + 1) % Len(rounds)
  /\ revealed' = revealed
  /\ nextRoundBtnText' = IF roundNumber' = 3 THEN "Finish Round 3" ELSE nextRoundBtnText
  /\ UNCHANGED <<scores, nextRoundBtnDisplay, startFinalBtnDisplay>>

\* lines 252-259: the next catalogue entry becomes the active round
advanceToNextRound ==
  /\ roundNumber' = roundNumber + 1
  /\ currentRoundIndex' = (currentRoundIndex + 1) % Len(rounds)
  /\ revealed' = renderRound(currentRoundIndex')
  /\ nextRoundBtnText' = IF roundNumber' = 3 THEN "Finish Round 3" ELSE nextRoundBtnText
  /\ UNCHANGED <<scores, nextRoundBtnDisplay, startFinalBtnDisplay>>

finishRounds_loop ==
  /\ nextRoundBtnDisplay' = "none"
  /\ startFinalBtnDisplay' = "inline-block"
  /\ roundNumber' = 1
  /\ currentRoundIndex' = 0
  /\ revealed' = renderRound(0)
  /\ UNCHANGED <<scores, nextRoundBtnText>>

finishRounds_clearsBoard ==
  /\ nextRoundBtnDisplay' = "none"
  /\ startFinalBtnDisplay' = "inline-block"
  /\ revealed' = renderRound(currentRoundIndex)
  /\ UNCHANGED <<currentRoundIndex, roundNumber, scores, nextRoundBtnText>>

finishRounds_nothing ==
  UNCHANGED <<currentRoundIndex, roundNumber, scores, revealed, nextRoundBtnDisplay,
              nextRoundBtnText, startFinalBtnDisplay>>

\* lines 261-263: round 3 has concluded
finishRounds ==
  /\ nextRoundBtnDisplay' = "none"
  /\ startFinalBtnDisplay' = "inline-block"
  /\ UNCHANGED <<currentRoundIndex, roundNumber, scores, revealed, nextRoundBtnText>>

nextRound ==
  /\ advances < MaxAdvances
  /\ advances' = advances + 1
  /\ event' = Event("nextRound", -1, 0, <<>>)
  /\ IF inRounds1Or2(roundNumber) THEN advanceToNextRound ELSE finishRounds
  /\ UNCHANGED <<finalVars, revealLog, alertShown>>

(***************************************************************************)
(* prepareFinalFeud                                                        *)
(***************************************************************************)
winningTeam_strict(s) == IF s[1] > s[2] THEN 1 ELSE 2

\* scores[1] >= scores[2] ? 1 : 2
winningTeam(s) == IF s[1] >= s[2] THEN 1 ELSE 2

prepareFinalFeud_showsPlayer2 ==
  /\ event' = Event("prepareFinalFeud", -1, 0, <<>>)
  /\ finalTeam' = winningTeam(scores)
  /\ mainDisplay' = "none"
  /\ finalFeudHidden' = FALSE
  /\ player1Answers' = <<>>
  /\ player2Answers' = <<>>
  /\ player1SectionDisplay' = "block"
  /\ player2SectionDisplay' = "block"
  /\ finalResultsDisplay' = "none"
  /\ UNCHANGED <<roundVars, finalBoard, finalTotalScore, finalMessage, advances,
                 revealLog, alertShown>>

prepareFinalFeud_keepsMain ==
  /\ event' = Event("prepareFinalFeud", -1, 0, <<>>)
  /\ finalTeam' = winningTeam(scores)
  /\ mainDisplay' = mainDisplay
  /\ finalFeudHidden' = FALSE
  /\ player1Answers' = <<>>
  /\ player2Answers' = <<>>
  /\ player1SectionDisplay' = "block"
  /\ player2SectionDisplay' = "none"
  /\ finalResultsDisplay' = "none"
  /\ UNCHANGED <<roundVars, finalBoard, finalTotalScore, finalMessage, advances,
                 revealLog, alertShown>>

prepareFinalFeud ==
  /\ event' = Event("prepareFinalFeud", -1, 0, <<>>)
  /\ finalTeam' = winningTeam(scores)
  /\ mainDisplay' = "none"
  /\ finalFeudHidden' = FALSE
  /\ player1Answers' = <<>>
  /\ player2Answers' = <<>>
  /\ player1SectionDisplay' = "block"
  /\ player2SectionDisplay' = "none"
  /\ finalResultsDisplay' = "none"
  /\ UNCHANGED <<roundVars, finalBoard, finalTotalScore, finalMessage, advances,
                 revealLog, alertShown>>

(***************************************************************************)
(* What the players type: one raw text per input, each from a menu.  The   *)
(* inputs p1-q0..p1-q4 are Player 1's, p2-q0..p2-q4 are Player 2's.        *)
(***************************************************************************)
RawMenu ==
  [p1 |-> << { <<"K", "i", "t", "c", "h", "e", "n">>, <<" ", "K", "I", "T", "C", "H", "E", "N", " ">>,
               <<"l", "i", "v", "i", "n", "g", " ", "r", "o", "o", "m">> },
             { <<"W", "a", "t", "e", "r", " ", "p", "r", "e", "s", "s", "u", "r", "e">> },
             { <<"Z", "i", "l", "l", "o", "w">>, <<"R", "E", "A", "L", "T", "O", "R", ".", "C", "O", "M">> },
             { <<>>, <<"I", "n", "U+2011", "u", "n", "i", "t", " ", "l", "a", "u", "n", "d", "r", "y">> },
             { <<>> } >>,
   p2 |-> << { <<"K", "i", "t", "c", "h", "e", "n">>, <<" ", "K", "I", "T", "C", "H", "E", "N", " ">>,
               <<"l", "i", "v", "i", "n", "g", " ", "r", "o", "o", "m">>, <<"G", "a", "r", "a", "g", "e">> },
             { <<"W", "a", "t", "e", "r", " ", "p", "r", "e", "s", "s", "u", "r", "e">>,
               <<"C", "l", "o", "s", "e", "t", " ", "s", "p", "a", "c", "e">> },
             { <<"Z", "i", "l", "l", "o", "w">>, <<"R", "E", "A", "L", "T", "O", "R", ".", "C", "O", "M">> },
             { <<>>, <<"I", "n", "U+2011", "u", "n", "i", "t", " ", "l", "a", "u", "n", "d", "r", "y">> },
             { <<>> } >>]

\* the values of the five inputs with the given id prefix
RawSubmissions ==
  [prefix \in DOMAIN RawMenu |->
     { <<a, b, c, d, e>> : a \in RawMenu[prefix][1], b \in RawMenu[prefix][2],
                           c \in RawMenu[prefix][3], d \in RawMenu[prefix][4],
                           e \in RawMenu[prefix][5] }]

AllRawSubmissions == UNION {RawSubmissions[prefix] : prefix \in DOMAIN RawMenu}

collectedAnswers_raw == [raw \in AllRawSubmissions |-> raw]

\* the array a submit handler collects from the inputs: the normalized value of
\* every input, in question order (tabulated once for the submissions of the menu)
collectedAnswers ==
  [raw \in AllRawSubmissions |-> [k \in 1..Len(finalQuestions) |-> normalizeInput(raw[k])]]

(***************************************************************************)
(* submitPlayer1                                                           *)
(* The handler is invoked with the p1 inputs on the page (they are made by *)
(* prepareFinalFeud); raw[k] is the value of input p1-q(k-1).              *)
(***************************************************************************)
submitPlayer1(raw) ==
  /\ event' = Event("submitPlayer1", -1, 0, raw)
  /\ player1Answers' = collectedAnswers[raw]
  /\ player1SectionDisplay' = "none"
  /\ player2SectionDisplay' = "block"
  /\ UNCHANGED <<roundVars, mainDisplay, finalFeudHidden, finalTeam, player2Answers,
                 finalResultsDisplay, finalBoard, finalTotalScore, finalMessage, advances,
                 revealLog, alertShown>>

(***************************************************************************)
(* getPointsForFinal, showFinalResults                                     *)
(***************************************************************************)
\* ans.text.toLowerCase() of every entry of finalQuestions, tabulated once
lowerCaseTexts ==
  [q \in 1..Len(finalQuestions) |->
     [k \in 1..Len(finalQuestions[q].answers) |->
        toLowerCase(finalQuestions[q].answers[k].text)]]

findEntry_orFirst(questionIndex, answerValue) ==
  LET texts == lowerCaseTexts[questionIndex + 1]
      hits == {k \in 1..Len(texts) : texts[k] = answerValue}
  IN  IF hits = {} THEN 1 ELSE CHOOSE k \in hits : \A j \in hits : k <= j

\* answers.find(ans => ans.text.toLowerCase() === answerValue): the index of the
\* first matching entry, 0 when there is none
findEntry(questionIndex, answerValue) ==
  LET texts == lowerCaseTexts[questionIndex + 1]
      hits == {k \in 1..Len(texts) : texts[k] = answerValue}
  IN  IF hits = {} THEN 0 ELSE CHOOSE k \in hits : \A j \in hits : k <= j

getPointsForFinal_caseSensitive(questionIndex, answerValue) ==
  IF answerValue = <<>> THEN 0
  ELSE LET answers == finalQuestions[questionIndex + 1].answers
           hits == {k \in 1..Len(answers) : answers[k].text = answerValue}
       IN  IF hits = {} THEN 0 ELSE answers[CHOOSE k \in hits : TRUE].points

getPointsForFinal(questionIndex, answerValue) ==
  IF answerValue = <<>> THEN 0
  ELSE LET answers == finalQuestions[questionIndex + 1].answers
           entry == findEntry(questionIndex, answerValue)
       IN  IF entry # 0 THEN answers[entry].points ELSE 0

\* getPointsForFinal(i, arr[i]); arr[i] is undefined, hence falsy, beyond arr.length
pointsAt(arr, i) == IF i + 1 \in DOMAIN arr THEN getPointsForFinal(i, arr[i + 1]) ELSE 0

\* the rows the loop of showFinalResults appends for questions 0..Len-1
finalRows(p1, p2) ==
  [k \in 1..Len(finalQuestions) |->
     [p1Pts |-> pointsAt(p1, k - 1), p2Pts |-> pointsAt(p2, k - 1)]]

\* total after the first n iterations of the loop
RECURSIVE totalAfter(_, _)
totalAfter(rows, n) ==
  IF n = 0 THEN 0 ELSE totalAfter(rows, n - 1) + rows[n].p1Pts + rows[n].p2Pts

reached200_strict(total) == total > 200

\* total >= 200
reached200(total) == total >= 200

\* reads the globals player1Answers and player2Answers as they are when it is called
showFinalResults(p1, p2) ==
  /\ finalBoard' = finalRows(p1, p2)
  /\ finalTotalScore' = totalAfter(finalBoard', Len(finalQuestions))
  /\ finalMessage' = IF reached200(finalTotalScore') THEN WinMessage ELSE LoseMessage
  /\ finalResultsDisplay' = "block"
  /\ player2SectionDisplay' = "none"

(***************************************************************************)
(* submitPlayer2                                                           *)
(***************************************************************************)
isDuplicate_emptyToo(value, first) == value = first

\* value && value === player1Answers[idx]
isDuplicate(value, first) == value # <<>> /\ value = first

duplicateFound_never(p2) == FALSE

duplicateFound_skipsFirst(p2) ==
  \E k \in 2..Len(finalQuestions) :
     k \in DOMAIN player1Answers /\ isDuplicate(p2[k], player1Answers[k])

\* the flag after the forEach loop over all questions
duplicateFound(p2) ==
  \E k \in 1..Len(finalQuestions) :
     k \in DOMAIN player1Answers /\ isDuplicate(p2[k], player1Answers[k])

submitPlayer2_keepsRejected(raw) ==
  /\ event' = Event("submitPlayer2", -1, 0, raw)
  /\ player2Answers' = IF player2Answers = <<>> THEN collectedAnswers[raw] ELSE player2Answers
  /\ IF duplicateFound(collectedAnswers[raw])
       THEN /\ alertShown' = TRUE
            /\ UNCHANGED <<player2SectionDisplay, finalResultsDisplay, finalBoard,
                           finalTotalScore, finalMessage>>
       ELSE /\ showFinalResults(player1Answers, player2Answers')
            /\ UNCHANGED alertShown
  /\ UNCHANGED <<roundVars, mainDisplay, finalFeudHidden, finalTeam, player1Answers,
                 player1SectionDisplay, advances, revealLog>>

submitPlayer2(raw) ==
  /\ event' = Event("submitPlayer2", -1, 0, raw)
  /\ player2Answers' = collectedAnswers[raw]
  /\ IF duplicateFound(player2Answers')
       THEN /\ alertShown' = TRUE
            /\ UNCHANGED <<player2SectionDisplay, finalResultsDisplay, finalBoard,
                           finalTotalScore, finalMessage>>
       ELSE /\ showFinalResults(player1Answers, player2Answers')
            /\ UNCHANGED alertShown
  /\ UNCHANGED <<roundVars, mainDisplay, finalFeudHidden, finalTeam, player1Answers,
                 player1SectionDisplay, advances, revealLog>>

(***************************************************************************)
(* The host: a click reaches a handler only while its control is shown.    *)
(* The cards, nextRoundBtn and startFinalBtn belong to the main round      *)
(* interface that prepareFinalFeud hides; the two submit buttons belong to *)
(* the player sections of the Final Feud container.                        *)
(***************************************************************************)
mainShown == mainDisplay # "none"

finalFeudShown == ~finalFeudHidden

ClickCard ==
  /\ mainShown
  /\ \E idx \in 0..(MaxCard - 1), activeTeam \in Teams : revealAnswer(idx, activeTeam)

ClickNextRound ==
  /\ mainShown
  /\ nextRoundBtnDisplay # "none"
  /\ nextRound

ClickStartFinal ==
  /\ mainShown
  /\ startFinalBtnDisplay # "none"
  /\ prepareFinalFeud

ClickSubmitPlayer1 ==
  /\ finalFeudShown
  /\ player1SectionDisplay # "none"
  /\ \E raw \in RawSubmissions.p1 : submitPlayer1(raw)

ClickSubmitPlayer2 ==
  /\ finalFeudShown
  /\ player2SectionDisplay # "none"
  /\ \E raw \in RawSubmissions.p2 : submitPlayer2(raw)

Next ==
  \/ ClickCard
  \/ ClickNextRound
  \/ ClickStartFinal
  \/ ClickSubmitPlayer1
  \/ ClickSubmitPlayer2

Spec == Init /\ [][Next]_vars

(***************************************************************************)
(* The host-driven page with a host who does not leave the advance button  *)
(* unclicked for ever while it is on offer.                                *)
(***************************************************************************)
SpecFair == Spec /\ WF_vars(ClickNextRound)

(***************************************************************************)
(* The round handlers called directly, in any order (the operations        *)
(* revealAnswer, advanceRound and beginBonusStage of the interface),       *)
(* whether or not their control is shown.                                  *)
(***************************************************************************)
CallRevealAnswer ==
  \E idx \in 0..(MaxCardCalls - 1), activeTeam \in Teams : revealAnswer(idx, activeTeam)

CallNextRound == nextRound

CallPrepareFinalFeud == prepareFinalFeud

NextCalls ==
  \/ CallRevealAnswer
  \/ CallNextRound
  \/ CallPrepareFinalFeud

SpecCalls == Init /\ [][NextCalls]_vars

(***************************************************************************)
(* Vocabulary of the properties                                            *)
(***************************************************************************)
\* round progression has left round 3: the else branch of nextRound has run
RoundsComplete == nextRoundBtnDisplay = "none" /\ startFinalBtnDisplay = "inline-block"

\* the collector waits for Player 2: the Player 2 section is the one shown
AwaitingPlayer2 == finalFeudShown /\ player2SectionDisplay = "block"

\* a bonus outcome (board, total, message) is on display
OutcomeProduced == finalResultsDisplay = "block"

Questions == 1..Len(finalQuestions)

\* the trimmed, lower-cased entries of every submission of the menu
Entered == [raw \in AllRawSubmissions |-> [k \in Questions |-> toLowerCase(trim(raw[k]))]]

\* some question at which Player 2's entry is non-empty and equals Player 1's
SameAnswerAt(p2, p1) == \E k \in Questions : p2[k] # <<>> /\ p2[k] = p1[k]

\* the points of the first entry of question q whose lower-cased text is entry
SurveyPoints(q, entry) ==
  LET answers == finalQuestions[q].answers
      hits == {k \in 1..Len(answers) : lowerCaseTexts[q][k] = entry}
  IN  IF hits = {} THEN 0
      ELSE answers[CHOOSE k \in hits : \A j \in hits : k <= j].points

RECURSIVE SurveySum(_, _, _)
SurveySum(p1, p2, n) ==
  IF n = 0 THEN 0
  ELSE SurveySum(p1, p2, n - 1) + SurveyPoints(n, p1[n]) + SurveyPoints(n, p2[n])

kitchen == <<"k", "i", "t", "c", "h", "e", "n">>

living_room == <<"l", "i", "v", "i", "n", "g", " ", "r", "o", "o", "m">>

KITCHEN_padded == <<" ", "K", "I", "T", "C", "H", "E", "N", " ">>

(***************************************************************************)
(* C1.  Within a round an answer index awards points at most once: a       *)
(* revealAnswer on a card that is already revealed changes neither team's  *)
(* total, whichever team is selected; and a step that changes a total      *)
(* turns some unrevealed card of the board into a revealed one.            *)
(***************************************************************************)
C1_RevealAwardsOnce ==
  [][ /\ (event'.op = "revealAnswer" /\ revealed[event'.idx]) => scores' = scores
      /\ scores' # scores =>
           \E idx \in DOMAIN revealed :
              idx \in DOMAIN revealed' /\ ~revealed[idx] /\ revealed'[idx] ]_vars

\* team 2 clicked card 0 after team 1 had been awarded it, and got nothing
C1_Witness ==
  /\ event.op = "revealAnswer" /\ event.idx = 0 /\ event.team = 2
  /\ roundNumber = 1 /\ revealed[0]
  /\ scores[1] = 30 /\ scores[2] = 0

(***************************************************************************)
(* C2.  A first reveal of an answer with base points p while the round     *)
(* number is r adds exactly p * r to the active team's total, r in 1..3.   *)
(***************************************************************************)
C2_RoundMultiplier ==
  [][ (event'.op = "revealAnswer" /\ ~revealed[event'.idx]) =>
        /\ roundNumber \in 1..3
        /\ scores'[event'.team] =
             scores[event'.team]
               + rounds[currentRoundIndex + 1].answers[event'.idx + 1].points * roundNumber ]_vars

\* base 30 revealed in round 2 awards 60
C2_Witness ==
  /\ event.op = "revealAnswer" /\ event.idx = 0
  /\ roundNumber = 2 /\ revealed[0]
  /\ scores[event.team] = 60
  /\ \A t \in Teams \ {event.team} : scores[t] = 0

(***************************************************************************)
(* C3.  From the initial state two nextRound calls reach round number 3,   *)
(* whatever reveals are interleaved; the third call reaches RoundsComplete *)
(* and leaves the round number at 3 and the catalogue index where it was.  *)
(***************************************************************************)
C3_TwoAdvancesThenComplete ==
  /\ advances = 0 => roundNumber = 1 /\ currentRoundIndex = 0 /\ ~RoundsComplete
  /\ advances = 1 => roundNumber = 2 /\ currentRoundIndex = 1 /\ ~RoundsComplete
  /\ advances = 2 => roundNumber = 3 /\ currentRoundIndex = 2 /\ ~RoundsComplete
  /\ advances >= 3 => roundNumber = 3 /\ currentRoundIndex = 2 /\ RoundsComplete

\* the third call has been made, with reveals for both teams on the way
C3_Witness ==
  /\ advances = 3 /\ event.op = "nextRound"
  /\ RoundsComplete /\ roundNumber = 3
  /\ scores[1] > 0 /\ scores[2] > 0

(***************************************************************************)
(* C4.  Once RoundsComplete is reached it is never left: the round number  *)
(* stays 3 and the catalogue index stays put under every later call, and a *)
(* further nextRound call changes nothing of the page or the globals.      *)
(***************************************************************************)
C4_AdvanceAfterCompleteIsNoOp ==
  [][ RoundsComplete =>
        /\ RoundsComplete'
        /\ roundNumber = 3 /\ roundNumber' = 3
        /\ currentRoundIndex' = currentRoundIndex
        /\ event'.op = "nextRound" => UNCHANGED <<roundVars, finalVars>> ]_vars

\* a fourth nextRound call has been made
C4_Witness ==
  /\ advances = 4 /\ event.op = "nextRound"
  /\ RoundsComplete /\ roundNumber = 3 /\ currentRoundIndex = 2

(***************************************************************************)
(* C5.  prepareFinalFeud records team 1 if scores[1] >= scores[2] when it  *)
(* is invoked and team 2 otherwise; every tie selects team 1.              *)
(***************************************************************************)
C5_FinalistByTotals ==
  event.op = "prepareFinalFeud" =>
    /\ scores[1] >= scores[2] => finalTeam = 1
    /\ scores[1] < scores[2] => finalTeam = 2

\* a tie with points on both sides
C5_Witness ==
  /\ event.op = "prepareFinalFeud"
  /\ scores[1] = scores[2] /\ scores[1] > 0
  /\ finalTeam = 1

(***************************************************************************)
(* C6.  submitPlayer2 is rejected (no outcome, Player 2 still to submit)   *)
(* exactly when at some question Player 2's trimmed, lower-cased entry is  *)
(* non-empty and equals Player 1's stored entry; two empty entries at the  *)
(* same question never cause a rejection.                                  *)
(***************************************************************************)
C6_RejectedIffDuplicate ==
  event.op = "submitPlayer2" =>
    /\ SameAnswerAt(Entered[event.raw], player1Answers) =>
         ~OutcomeProduced /\ AwaitingPlayer2
    /\ ~SameAnswerAt(Entered[event.raw], player1Answers) =>
         OutcomeProduced /\ ~AwaitingPlayer2

\* " KITCHEN " against a stored "kitchen" is rejected, every other entry being
\* different or empty on both sides
C6_Witness ==
  /\ event.op = "submitPlayer2" /\ ~OutcomeProduced /\ AwaitingPlayer2
  /\ event.raw[1] = KITCHEN_padded /\ player1Answers[1] = kitchen
  /\ \A k \in Questions \ {1} :
        player2Answers[k] # player1Answers[k] \/ player2Answers[k] = <<>>
  /\ \E k \in Questions : player1Answers[k] = <<>> /\ player2Answers[k] = <<>>

(***************************************************************************)
(* C7.  A submitPlayer2 that meets a duplicate leaves the collector        *)
(* waiting for Player 2 with the Player 2 section still shown (Player 2    *)
(* can resubmit), produces no outcome, and changes neither Player 1's      *)
(* stored answers nor the finalist nor a team total.                       *)
(***************************************************************************)
C7_RejectionKeepsState ==
  [][ (event'.op = "submitPlayer2" /\ SameAnswerAt(Entered[event'.raw], player1Answers)) =>
        /\ AwaitingPlayer2'
        /\ ~OutcomeProduced'
        /\ UNCHANGED <<player1Answers, finalTeam, scores, finalBoard,
                       finalTotalScore, finalMessage, roundVars>> ]_vars

\* a rejected submission: no total has been written and Player 2 is awaited
C7_Witness ==
  /\ event.op = "submitPlayer2"
  /\ SameAnswerAt(player2Answers, player1Answers)
  /\ AwaitingPlayer2 /\ ~OutcomeProduced
  /\ finalTotalScore = noText /\ finalMessage = ""
  /\ finalTeam = 2 /\ scores[2] > scores[1]

(***************************************************************************)
(* C8 as stated: a rejected submitPlayer2 leaves the stored Player 2       *)
(* submission exactly as it was before the call.                           *)
(***************************************************************************)
C8_RejectedLeavesStored ==
  [][ (event'.op = "submitPlayer2" /\ ~OutcomeProduced') =>
        player2Answers' = player2Answers ]_vars

(***************************************************************************)
(* C8 amended.  Every submitPlayer2 call, accepted or rejected, overwrites *)
(* the stored Player 2 submission with that call's trimmed, lower-cased    *)
(* entries; a rejected call produces no outcome, and whenever an outcome   *)
(* exists the stored Player 2 submission has no duplicate of Player 1's.   *)
(***************************************************************************)
C8_StoredIsLastSubmission ==
  /\ event.op = "submitPlayer2" =>
       /\ player2Answers = Entered[event.raw]
       /\ SameAnswerAt(player2Answers, player1Answers) => ~OutcomeProduced
  /\ OutcomeProduced => ~SameAnswerAt(player2Answers, player1Answers)

\* the rejected entries are what is stored
C8_Witness ==
  /\ event.op = "submitPlayer2" /\ ~OutcomeProduced
  /\ player1Answers[1] = living_room
  /\ player2Answers[1] = living_room

(***************************************************************************)
(* C9.  The bonus total is the sum, over every question and both players,  *)
(* of the points of the entry whose lower-cased text equals the player's   *)
(* stored entry, 0 when none does; the board shows the two terms of each   *)
(* question.                                                               *)
(***************************************************************************)
C9_BonusTotalIsSum ==
  OutcomeProduced =>
    /\ finalTotalScore = SurveySum(player1Answers, player2Answers, Len(finalQuestions))
    /\ \A k \in Questions :
          /\ finalBoard[k].p1Pts = SurveyPoints(k, player1Answers[k])
          /\ finalBoard[k].p2Pts = SurveyPoints(k, player2Answers[k])

\* 'Kitchen' and 'living room' contribute 40 + 25 to the first question
C9_Witness ==
  /\ OutcomeProduced
  /\ player1Answers[1] = kitchen /\ player2Answers[1] = living_room
  /\ event.raw[1] = living_room
  /\ finalBoard[1].p1Pts = 40 /\ finalBoard[1].p2Pts = 25
  /\ finalTotalScore = 65 + 55 + 60

(***************************************************************************)
(* C10.  The outcome is the win message exactly when the total is at least *)
(* 200, and the other message otherwise.                                   *)
(***************************************************************************)
C10_PassIffAtLeast200 ==
  OutcomeProduced =>
    /\ finalTotalScore >= 200 => finalMessage = WinMessage
    /\ finalTotalScore < 200 => finalMessage = LoseMessage

\* a total of exactly 200 wins
C10_Witness ==
  /\ OutcomeProduced
  /\ finalTotalScore = 200
  /\ finalMessage = WinMessage

\* no entry of question q has a text that lower-cases to entry
Unlisted(q, entry) ==
  \A k \in 1..Len(finalQuestions[q].answers) :
     toLowerCase(finalQuestions[q].answers[k].text) # entry

garage == <<"g", "a", "r", "a", "g", "e">>

(***************************************************************************)
(* C11.  A stored bonus answer that matches no entry of its question's     *)
(* list, the empty answer included, is shown with 0 points; and every      *)
(* submitPlayer2 without a duplicate produces the outcome - a board row    *)
(* for every question, a numeric total and one of the two messages -       *)
(* whatever unlisted answers the two submissions contain.                  *)
(***************************************************************************)
C11_UnlistedScoresZero ==
  /\ OutcomeProduced =>
       \A k \in Questions :
          /\ (player1Answers[k] = <<>> \/ Unlisted(k, player1Answers[k])) =>
               finalBoard[k].p1Pts = 0
          /\ (player2Answers[k] = <<>> \/ Unlisted(k, player2Answers[k])) =>
               finalBoard[k].p2Pts = 0
  /\ (event.op = "submitPlayer2" /\ ~SameAnswerAt(player2Answers, player1Answers)) =>
       /\ OutcomeProduced
       /\ DOMAIN finalBoard = Questions
       /\ finalTotalScore \in Nat
       /\ finalMessage \in {WinMessage, LoseMessage}

\* 'Garage' typed by Player 2 and an empty answer of Player 1 both score 0
C11_Witness ==
  /\ OutcomeProduced
  /\ player2Answers[1] = garage /\ finalBoard[1].p2Pts = 0
  /\ player1Answers[4] = <<>> /\ finalBoard[4].p1Pts = 0
  /\ finalTotalScore > 0

\* the same character, or the upper- and lower-case form of one letter
SameLetter(c, d) ==
  \/ c = d
  \/ c \in DOMAIN LowerCaseOf /\ LowerCaseOf[c] = d
  \/ d \in DOMAIN LowerCaseOf /\ LowerCaseOf[d] = c

\* typed, without the white space around it, reads as text when case is ignored
ReadsAs(typed, text) ==
  \E a \in 1..(Len(typed) + 1) :
     LET b == a + Len(text) - 1
     IN  /\ b <= Len(typed)
         /\ \A i \in 1..(a - 1) : typed[i] \in WhiteSpace
         /\ \A i \in (b + 1)..Len(typed) : typed[i] \in WhiteSpace
         /\ \A i \in 1..Len(text) : SameLetter(typed[a + i - 1], text[i])

\* no upper-case letter, no white space at either end
IsNormalized(text) ==
  /\ \A i \in 1..Len(text) : text[i] \notin DOMAIN LowerCaseOf
  /\ text # <<>> => text[1] \notin WhiteSpace /\ text[Len(text)] \notin WhiteSpace

\* the points of the first entry of question q that typed reads as, 0 if none
PointsForTyped(q, typed) ==
  LET answers == finalQuestions[q].answers
      hits == {k \in 1..Len(answers) : ReadsAs(typed, answers[k].text)}
  IN  IF hits = {} THEN 0
      ELSE answers[CHOOSE k \in hits : \A j \in hits : k <= j].points

Kitchen_typed == <<"K", "i", "t", "c", "h", "e", "n">>

(***************************************************************************)
(* C12.  For both players the stored entry is the typed text without the   *)
(* surrounding white space and in lower case, so texts that differ only in *)
(* case and surrounding white space (' KITCHEN ', 'Kitchen') are stored as *)
(* the same entry ('kitchen'); Player 2's submission is rejected exactly   *)
(* when a typed text reads, case and white space ignored, as Player 1's    *)
(* stored non-empty entry; and in the outcome a typed text earns the       *)
(* points of the entry it reads as, case and white space ignored.          *)
(***************************************************************************)
C12_CaseAndPaddingIgnored ==
  /\ event.op = "submitPlayer1" =>
       \A k \in Questions :
          /\ IsNormalized(player1Answers[k]) /\ ReadsAs(event.raw[k], player1Answers[k])
          /\ event.raw[k] \in {Kitchen_typed, KITCHEN_padded} => player1Answers[k] = kitchen
  /\ event.op = "submitPlayer2" =>
       /\ \A k \in Questions :
             /\ IsNormalized(player2Answers[k]) /\ ReadsAs(event.raw[k], player2Answers[k])
             /\ event.raw[k] \in {Kitchen_typed, KITCHEN_padded} => player2Answers[k] = kitchen
       /\ OutcomeProduced <=>
            ~\E k \in Questions :
                player1Answers[k] # <<>> /\ ReadsAs(event.raw[k], player1Answers[k])
       /\ OutcomeProduced =>
            \A k \in Questions : finalBoard[k].p2Pts = PointsForTyped(k, event.raw[k])
  /\ OutcomeProduced =>
       \A k \in Questions : finalBoard[k].p1Pts = PointsForTyped(k, player1Answers[k])

\* ' KITCHEN ' typed by Player 2 earns the 40 points of 'Kitchen'
C12_Witness ==
  /\ OutcomeProduced /\ event.op = "submitPlayer2"
  /\ event.raw[1] = KITCHEN_padded /\ player2Answers[1] = kitchen
  /\ finalBoard[1].p2Pts = 40
  /\ player1Answers[1] = living_room

(***************************************************************************)
(* C13.  Both team totals are 0 at the start and non-negative ever after;  *)
(* no step decreases a total; and a step that changes a total is a         *)
(* revealAnswer - nextRound, prepareFinalFeud, submitPlayer1,              *)
(* submitPlayer2 and the bonus scoring leave both totals as they are.      *)
(***************************************************************************)
C13_TotalsOnlyGrowByReveals ==
  /\ \A t \in Teams : scores[t] = 0
  /\ [](\A t \in Teams : scores[t] \in Nat)
  /\ [][ /\ \A t \in Teams : scores'[t] >= scores[t]
         /\ scores' # scores => event'.op = "revealAnswer"
         /\ event'.op \in {"nextRound", "prepareFinalFeud", "submitPlayer1", "submitPlayer2"} =>
              scores' = scores ]_vars

\* a winning bonus total of 200 has been produced and the team totals are still
\* the 30 + 60 + 90 of the reveals
C13_Witness ==
  /\ OutcomeProduced /\ finalTotalScore = 200
  /\ scores[1] = 30 + 90 /\ scores[2] = 60

(***************************************************************************)
(* C14.  Once the nextRound call made at round number 3 has taken the game *)
(* to RoundsComplete, reveals are ignored: a revealAnswer in RoundsComplete *)
(* changes neither team's total.                                           *)
(***************************************************************************)
C14_NoAwardAfterRoundsComplete ==
  [][ (RoundsComplete /\ event'.op = "revealAnswer") => scores' = scores ]_vars

(***************************************************************************)
(* C15.  While the host drives the page, prepareFinalFeud runs, and a      *)
(* finalist is recorded, only in RoundsComplete: at least three nextRound  *)
(* calls have been made, the last of them at round number 3 (the one that  *)
(* shows the start-final button), and the round number is still 3.         *)
(***************************************************************************)
C15_FinalistOnlyAfterRoundsComplete ==
  (event.op = "prepareFinalFeud" \/ finalTeam # null) =>
    /\ RoundsComplete
    /\ advances >= 3
    /\ roundNumber = 3

\* the final was started right after the third nextRound call, team 2 leading
C15_Witness ==
  /\ event.op = "prepareFinalFeud"
  /\ advances = 3 /\ RoundsComplete
  /\ finalTeam = 2 /\ scores[2] > scores[1]

\* submitPlayer1 has stored an entry for every question
Player1Stored == DOMAIN player1Answers = Questions

(***************************************************************************)
(* C16.  While the host drives the page, submitPlayer2 runs only after     *)
(* submitPlayer1 has stored Player 1's answers, and an outcome appears     *)
(* only by a submitPlayer2 made with Player 1's answers stored; so         *)
(* whenever an outcome exists both submissions are stored and, at every    *)
(* question, Player 2's entry is empty or differs from Player 1's.         *)
(***************************************************************************)
C16_OutcomeOnlyWhenComplete ==
  /\ [](event.op = "submitPlayer2" => Player1Stored)
  /\ [](OutcomeProduced =>
          /\ Player1Stored
          /\ DOMAIN player2Answers = Questions
          /\ \A k \in Questions :
                player2Answers[k] = <<>> \/ player2Answers[k] # player1Answers[k])
  /\ [][ (OutcomeProduced' /\ ~OutcomeProduced) =>
           /\ event'.op = "submitPlayer2"
           /\ Player1Stored /\ player1Answers' = player1Answers
           /\ event.op \in {"submitPlayer1", "submitPlayer2"} ]_vars

\* an outcome with 'kitchen' against 'garage' at the first question; both players
\* left the last question empty
C16_Witness ==
  /\ OutcomeProduced /\ event.op = "submitPlayer2"
  /\ player1Answers[1] = kitchen /\ player2Answers[1] = garage
  /\ player1Answers[5] = <<>> /\ player2Answers[5] = <<>>
  /\ player1Answers[2] # player2Answers[2]

C18_AdvanceStartsFreshRound ==
  [][ (event'.op = "nextRound" /\ roundNumber < 3) =>
        /\ roundNumber' = roundNumber + 1
        /\ currentRoundIndex' = (currentRoundIndex + 1) % Len(rounds)
        /\ DOMAIN revealed' = 0..(Len(rounds[currentRoundIndex' + 1].answers) - 1)
        /\ \A idx \in DOMAIN revealed' : ~revealed'[idx]
        /\ scores' = scores ]_vars

\* card 0 was revealed for team 1 in round 1 (30) and again in round 2 (60)
C18_Witness ==
  /\ event.op = "revealAnswer" /\ event.idx = 0 /\ event.team = 1
  /\ roundNumber = 2 /\ currentRoundIndex = 1 /\ revealed[0]
  /\ scores[1] = 30 + 60 /\ scores[2] = 0

(***************************************************************************)
(* C19.  A revealed card stays revealed within its round: a step that      *)
(* turns a revealed flag back to false is a nextRound call that starts a   *)
(* new round (made below round number 3), and the nextRound call made at   *)
(* round number 3, which reaches RoundsComplete, changes no reveal flag.   *)
(***************************************************************************)
C19_RevealedStaysRevealed ==
  [][ /\ (\E idx \in DOMAIN revealed : revealed[idx] /\ ~revealed'[idx]) =>
           /\ event'.op = "nextRound"
           /\ roundNumber < 3 /\ roundNumber' = roundNumber + 1
      /\ (event'.op = "nextRound" /\ roundNumber >= 3) => revealed' = revealed
      /\ event'.op \notin {"nextRound"} =>
           \A idx \in DOMAIN revealed : revealed[idx] => revealed'[idx] ]_vars

\* the call that finished round 3 left the revealed card 0 of round 3 revealed
C19_Witness ==
  /\ event.op = "nextRound" /\ advances = 3 /\ RoundsComplete
  /\ revealed[0] /\ scores[1] + scores[2] >= 90

(***************************************************************************)
(* C20.  As the comment above nextRound has it: a nextRound call made when *)
(* the game is in its last round (round number 3) loops back to the first  *)
(* round - round number 1 on the first catalogue entry.                    *)
(***************************************************************************)
C20_LastRoundLoopsBack ==
  [][ (event'.op = "nextRound" /\ roundNumber = 3) =>
        roundNumber' = 1 /\ currentRoundIndex' = 0 ]_vars

\* base points times round number, summed over the entries of a reveal log
RECURSIVE LogPoints(_)
LogPoints(log) ==
  IF log = {} THEN 0
  ELSE LET e == CHOOSE x \in log : TRUE
       IN  rounds[e[2] + 1].answers[e[3] + 1].points * e[1] + LogPoints(log \ {e})

RECURSIVE BasePoints(_, _)
BasePoints(answers, n) ==
  IF n = 0 THEN 0 ELSE BasePoints(answers, n - 1) + answers[n].points

\* every answer of the three played rounds, each at its round's multiplier
CatalogueCeiling ==
  BasePoints(rounds[1].answers, Len(rounds[1].answers)) * 1
    + BasePoints(rounds[2].answers, Len(rounds[2].answers)) * 2
    + BasePoints(rounds[3].answers, Len(rounds[3].answers)) * 3

(***************************************************************************)
(* C21.  In every reachable state the two team totals add up to the sum,   *)
(* over every (round, answer) pair revealed so far, of the answer's base   *)
(* points times the round's multiplier (1, 2, 3); each pair is counted     *)
(* once, so the sum of the totals is at most 105 * (1 + 2 + 3) = 630.      *)
(***************************************************************************)
C21_PointsConserved ==
  /\ scores[1] + scores[2] = LogPoints(revealLog)
  /\ \A e \in revealLog :
        /\ e[1] \in 1..3 /\ e[2] = e[1] - 1
        /\ e[3] \in 0..(Len(rounds[e[2] + 1].answers) - 1)
  /\ CatalogueCeiling = 630
  /\ scores[1] + scores[2] <= CatalogueCeiling

\* cards 0 and 1 were revealed in each of the three rounds, for both teams
C21_Witness ==
  /\ Cardinality(revealLog) = 6
  /\ scores[1] + scores[2] = (30 + 25) * (1 + 2 + 3)
  /\ scores[1] > 0 /\ scores[2] > 0

(***************************************************************************)
(* C22.  In every reachable state the round number is 1, 2 or 3 and the    *)
(* catalogue index is the round number minus one; so the multiplier table  *)
(* always has an entry for the round (the fallback of 1 is never used),    *)
(* the index never wraps around, and the fourth and fifth catalogue        *)
(* entries are never the active round nor ever revealed from.              *)
(***************************************************************************)
C22_RoundWithinTable ==
  /\ roundNumber \in 1..3
  /\ currentRoundIndex = roundNumber - 1
  /\ roundNumber \in DOMAIN multipliers /\ multipliers[roundNumber] # 0
  /\ currentRoundIndex + 1 < Len(rounds)
  /\ currentRoundIndex \notin {3, 4}
  /\ \A e \in revealLog : e[2] \notin {3, 4} /\ e[1] \in DOMAIN multipliers

\* a card of round 3 was revealed after a fourth nextRound call
C22_Witness ==
  /\ advances = 4 /\ event.op = "revealAnswer"
  /\ roundNumber = 3 /\ currentRoundIndex = 2
  /\ <<3, 2, 0>> \in revealLog /\ scores[event.team] >= 90

\* the first entry of question q that a stored answer reads as, 0 if none
EntryFor(q, answer) ==
  LET answers == finalQuestions[q].answers
      hits == {k \in 1..Len(answers) : answer # <<>> /\ ReadsAs(answer, answers[k].text)}
  IN  IF hits = {} THEN 0 ELSE CHOOSE k \in hits : \A j \in hits : k <= j

\* the two highest values of question q, added
TopTwo(q) ==
  LET answers == finalQuestions[q].answers
      pairs == {answers[jk[1]].points + answers[jk[2]].points :
                  jk \in {x \in (1..Len(answers)) \X (1..Len(answers)) : x[1] # x[2]}}
  IN  CHOOSE m \in pairs : \A n \in pairs : n <= m

RECURSIVE TopTwoUpTo(_)
TopTwoUpTo(n) == IF n = 0 THEN 0 ELSE TopTwoUpTo(n - 1) + TopTwo(n)

BonusCeiling == TopTwoUpTo(Len(finalQuestions))

(***************************************************************************)
(* C23.  In a produced outcome the two players never both earn points from *)
(* the same entry of a question's list: where both cells of a row show     *)
(* points they come from two different entries.  So a row is worth at most *)
(* the question's two highest values, and the bonus total at most their    *)
(* sum over the questions, 295.                                            *)
(***************************************************************************)
C23_NoEntryPaidTwice ==
  /\ BonusCeiling = 295
  /\ OutcomeProduced =>
       /\ \A k \in Questions :
             /\ (finalBoard[k].p1Pts > 0 /\ finalBoard[k].p2Pts > 0) =>
                  /\ EntryFor(k, player1Answers[k]) # 0
                  /\ EntryFor(k, player2Answers[k]) # 0
                  /\ EntryFor(k, player1Answers[k]) # EntryFor(k, player2Answers[k])
             /\ finalBoard[k].p1Pts + finalBoard[k].p2Pts <= TopTwo(k)
       /\ finalTotalScore <= BonusCeiling

\* the first three rows each show the question's two highest values
C23_Witness ==
  /\ OutcomeProduced
  /\ \A k \in 1..3 :
        /\ finalBoard[k].p1Pts > 0 /\ finalBoard[k].p2Pts > 0
        /\ finalBoard[k].p1Pts + finalBoard[k].p2Pts = TopTwo(k)
  /\ finalBoard[4].p1Pts + finalBoard[4].p2Pts = 0

(***************************************************************************)
(* C24.  A first reveal of an answer changes the total of the team that is *)
(* selected at that moment and that answer's revealed flag, and nothing    *)
(* else: the other team's total, the round number, the catalogue index,    *)
(* the other answers' flags, the buttons and the Final Feud are as before. *)
(***************************************************************************)
C24_RevealFrame ==
  [][ (event'.op = "revealAnswer" /\ ~revealed[event'.idx]) =>
        /\ revealed'[event'.idx]
        /\ DOMAIN revealed' = DOMAIN revealed
        /\ \A j \in DOMAIN revealed \ {event'.idx} : revealed'[j] = revealed[j]
        /\ scores'[event'.team] > scores[event'.team]
        /\ \A t \in Teams \ {event'.team} : scores'[t] = scores[t]
        /\ UNCHANGED <<roundNumber, currentRoundIndex, nextRoundBtnDisplay,
                       nextRoundBtnText, startFinalBtnDisplay, finalVars>> ]_vars

\* card 1 revealed for team 2 in round 1: card 0 stays revealed and team 1
\* keeps its 30
C24_Witness ==
  /\ event.op = "revealAnswer" /\ event.idx = 1 /\ event.team = 2
  /\ roundNumber = 1 /\ revealed[0] /\ revealed[1]
  /\ scores[1] = 30 /\ scores[2] = 25

(***************************************************************************)
(* C25.  When a submitPlayer2 succeeds after one or more rejected          *)
(* attempts, the outcome is computed from Player 1's answers as they were  *)
(* stored (the rejections left them alone) and from the entries of this    *)
(* last submission only: every Player 2 cell shows the points of the entry *)
(* just typed, whatever the rejected submissions held, and the total is    *)
(* the sum of the cells.                                                   *)
(***************************************************************************)
C25_OutcomeFromLastSubmission ==
  [][ (alertShown /\ event'.op = "submitPlayer2") =>
        /\ player1Answers' = player1Answers
        /\ OutcomeProduced' =>
             /\ player2Answers' = Entered[event'.raw]
             /\ \A k \in Questions :
                   /\ finalBoard'[k].p1Pts = SurveyPoints(k, player1Answers[k])
                   /\ finalBoard'[k].p2Pts = SurveyPoints(k, player2Answers'[k])
             /\ finalTotalScore' =
                  SurveySum(player1Answers, player2Answers', Len(finalQuestions)) ]_vars

\* after the duplicate alert Player 2 typed 'living room' against 'kitchen'
C25_Witness ==
  /\ alertShown /\ OutcomeProduced /\ event.op = "submitPlayer2"
  /\ player1Answers[1] = kitchen /\ event.raw[1] = living_room
  /\ finalBoard[1].p2Pts = 25
  /\ finalTotalScore = 200

(***************************************************************************)
(* C26.  The round number never decreases; with a host who keeps clicking  *)
(* the advance button while it is shown the main game eventually reaches   *)
(* RoundsComplete, whatever reveals and team switches come in between; and *)
(* the bonus stage gets its outcome only by a submitPlayer2 whose entries  *)
(* have no duplicate of Player 1's.                                        *)
(***************************************************************************)
C26_RoundsEventuallyComplete ==
  /\ [][roundNumber' >= roundNumber]_vars
  /\ <>RoundsComplete
  /\ [][ (OutcomeProduced' /\ ~OutcomeProduced) =>
           /\ event'.op = "submitPlayer2"
           /\ ~SameAnswerAt(player2Answers', player1Answers) ]_vars

\* RoundsComplete reached with one reveal in every round, the teams alternating
C26_Witness ==
  /\ RoundsComplete /\ mainShown
  /\ revealLog = {<<1, 0, 0>>, <<2, 1, 0>>, <<3, 2, 0>>}
  /\ scores[1] = 30 + 90 /\ scores[2] = 60

====
